---- MODULE Spec2Model ----
(***************************************************************************)
(* Model of BluumHQ/project-echo: the entry classifier / response          *)
(* generator of utils.py (classify_and_respond, call_openrouter_api,       *)
(* log_to_csv, log_to_supabase).                                           *)
(*                                                                         *)
(* Text is modelled as a sequence of pieces.  A piece is a one-character   *)
(* string wherever the code works on characters (entries, the remote       *)
(* reply, white space) and a longer string for a run of characters the     *)
(* code never looks into.  Python index i is position i+1 of a sequence.   *)
(***************************************************************************)
EXTENDS Integers, Sequences, FiniteSets, TLC

(***************************************************************************)
(* Bounds of the model.                                                    *)
(***************************************************************************)
\* classify_and_respond is called at most MaxCalls times in a behaviour
MaxCalls == 1
\* log_to_csv is called directly at most MaxDirectLogs times in a behaviour
MaxDirectLogs == 3
\* the user of the journaling app interacts with it at most MaxSteps times
MaxSteps == 4

(***************************************************************************)
(* String helpers (Python str methods used by the code).                   *)
(***************************************************************************)
Max(a, b) == IF a >= b THEN a ELSE b

Range(s) == {s[i] : i \in DOMAIN s}

\* characters str.strip() with no argument removes
WHITESPACE == {" ", "\n", "\t", "\r"}

RECURSIVE lstrip(_, _)
lstrip(s, chars) ==
    IF s # <<>> /\ Head(s) \in chars THEN lstrip(Tail(s), chars) ELSE s

RECURSIVE rstrip(_, _)
rstrip(s, chars) ==
    IF s # <<>> /\ s[Len(s)] \in chars
    THEN rstrip(SubSeq(s, 1, Len(s) - 1), chars)
    ELSE s

\* s.strip(chars)
strip(s, chars) == rstrip(lstrip(s, chars), chars)

\* s.startswith(prefix)
startswith(s, prefix) ==
    Len(s) >= Len(prefix) /\ SubSeq(s, 1, Len(prefix)) = prefix

\* s.endswith(suffix)
endswith(s, suffix) ==
    Len(s) >= Len(suffix) /\ SubSeq(s, Len(s) - Len(suffix) + 1, Len(s)) = suffix

\* the upper-case letters that occur in the modelled texts
lower_char(c) ==
    CASE c = "I" -> "i"
      [] c = "J" -> "j"
      [] c = "S" -> "s"
      [] c = "O" -> "o"
      [] c = "N" -> "n"
      [] OTHER -> c

\* s.lower()
lower(s) == [i \in DOMAIN s |-> lower_char(s[i])]

(***************************************************************************)
(* thefuzz: fuzz.partial_ratio(s1, s2).  The ratio of two strings is       *)
(* 2*LCS/(len1+len2) as a rounded percentage; the partial ratio is the     *)
(* best ratio of the shorter string against the windows of the longer one  *)
(* (the windows of the shorter string's length and the shorter windows     *)
(* that overlap either end).  An empty argument scores 0.                  *)
(***************************************************************************)
RECURSIVE lcs_row(_, _, _, _)
lcs_row(prev, ai, b, cur) ==
    IF Len(cur) = Len(b) THEN cur
    ELSE LET j    == Len(cur) + 1
             diag == IF j = 1 THEN 0 ELSE prev[j - 1]
             left == IF j = 1 THEN 0 ELSE cur[j - 1]
             v    == IF ai = b[j] THEN diag + 1 ELSE Max(prev[j], left)
         IN  lcs_row(prev, ai, b, Append(cur, v))

RECURSIVE lcs_rows(_, _, _, _)
lcs_rows(a, b, i, prev) ==
    IF i > Len(a) THEN prev
    ELSE lcs_rows(a, b, i + 1, lcs_row(prev, a[i], b, <<>>))

\* length of the longest common subsequence
lcs(a, b) ==
    IF Len(a) = 0 \/ Len(b) = 0 THEN 0
    ELSE lcs_rows(a, b, 1, [j \in 1..Len(b) |-> 0])[Len(b)]

\* int(round(x)) for x = num/den, halves to the even neighbour
round_div(num, den) ==
    LET q == num \div den
        r == num % den
    IN  IF 2 * r > den THEN q + 1
        ELSE IF 2 * r = den THEN q + (q % 2)
        ELSE q

\* fuzz.ratio
ratio(a, b) ==
    IF Len(a) + Len(b) = 0 THEN 100
    ELSE round_div(200 * lcs(a, b), Len(a) + Len(b))

\* the windows of the longer string the shorter one is aligned with
windows(long, m) ==
    {SubSeq(long, i, i + m - 1) : i \in 1..(Len(long) - m + 1)}
    \cup {SubSeq(long, 1, k) : k \in 1..(m - 1)}
    \cup {SubSeq(long, Len(long) - k + 1, Len(long)) : k \in 1..(m - 1)}

aligned_ratio(short, long) ==
    LET scores == {ratio(short, w) : w \in windows(long, Len(short))}
    IN  CHOOSE x \in scores : \A y \in scores : y <= x

partial_ratio(s1, s2) ==
    IF Len(s1) = 0 \/ Len(s2) = 0
    THEN (IF Len(s1) = 0 /\ Len(s2) = 0 THEN 100 ELSE 0)
    ELSE IF Len(s1) < Len(s2) THEN aligned_ratio(s1, s2)
    ELSE IF Len(s2) < Len(s1) THEN aligned_ratio(s2, s1)
    ELSE Max(aligned_ratio(s1, s2), aligned_ratio(s2, s1))

(***************************************************************************)
(* utils.py constants.                                                     *)
(***************************************************************************)
SYSTEM_PROMPT_VERSION == "v1.0"
USER_PROMPT_VERSION == "v1.0-session"

SAFETY_RED_FLAGS == <<
    <<"e", "n", "d", " ", "i", "t", " ", "a", "l", "l">>,
    <<"k", "i", "l", "l", " ", "m", "y", "s", "e", "l", "f">>,
    <<"s", "u", "i", "c", "i", "d", "e">>,
    <<"w", "o", "r", "t", "h", "l", "e", "s", "s">>,
    <<"c", "a", "n", "'", "t", " ", "g", "o", " ", "o", "n">>,
    <<"h", "o", "p", "e", "l", "e", "s", "s">>,
    <<"d", "e", "s", "p", "a", "i", "r">>,
    <<"g", "i", "v", "e", " ", "u", "p">>,
    <<"d", "e", "a", "t", "h">>,
    <<"d", "i", "e">>,
    <<"h", "a", "r", "m", " ", "m", "y", "s", "e", "l", "f">>,
    <<"s", "e", "l", "f", " ", "h", "a", "r", "m">>,
    <<"u", "n", "a", "l", "i", "v", "e">>,
    <<"k", "m", "s">>,
    <<"i", " ", "w", "a", "n", "n", "a", " ", "d", "i", "e">>
>>

FUZZY_MATCH_THRESHOLD == 80

OPENROUTER_API_BASE_URL == "https://openrouter.ai/api/v1/chat/completions"
OPENROUTER_MODEL == "meta-llama/llama-3.2-3b-instruct"

\* the response_text literals of classify_and_respond (in ASCII: the source
\* starts the first with a siren emoji and writes the third with U+2019)
SAFETY_MESSAGE ==
    "You mentioned something serious. Please talk to someone you trust or reach out for support."
MISSING_TEMPLATES_MESSAGE == "Missing prompt templates."
UNREACHABLE_MESSAGE == "Couldn't reach the AI."
PARSING_ERROR_MESSAGE == "Parsing error."

\* contents of system_prompt.txt and user_prompt.txt when the files exist
SYSTEM_PROMPT_TEXT == <<"You are a journaling assistant. Reply with a JSON object.">>
USER_PROMPT_TEXT == <<"Reflections so far:", "\n", "{{reflections}}", "\n", "Classify the last one.">>

(***************************************************************************)
(* Inputs the model draws from.                                            *)
(***************************************************************************)
ENTRY_EMPTY == <<>>
ENTRY_SPACE == <<" ">>
ENTRY_BLANK == <<" ", "\n">>
ENTRY_TYPO == <<"s", "u", "i", "c", "d", "e">>
ENTRY_KILL == <<"I", " ", "w", "a", "n", "t", " ", "t", "o", " ", "k", "i", "l", "l", " ", "m", "y", "s", "e", "l", "f">>
ENTRY_QUOTED == <<"s", "o", ",", " ", "\"", "o", "k", "\"", "\r", "\n", ":", ")">>
ENTRY_PROMOTION == <<"I", " ", "g", "o", "t", " ", "a", " ", "p", "r", "o", "m", "o", "t", "i", "o", "n">>

Entries ==
    {ENTRY_EMPTY, ENTRY_SPACE, ENTRY_BLANK, ENTRY_TYPO, ENTRY_KILL, ENTRY_PROMOTION}

\* entries of the turns before the last one
EarlierEntries == {ENTRY_KILL, ENTRY_PROMOTION}

PROMPT_WELL == <<"What went well today?">>
PROMPT_FEEL == <<" ", "How do you feel?", "\n">>

\* the prompts lists of a session with 0, 1 and 2 turns
PromptLists == {<<>>, <<PROMPT_FEEL>>, <<PROMPT_WELL, PROMPT_FEEL>>}

ApiKeys == {"", "sk-or-test"}
SessionIds == {"session-1"}

(***************************************************************************)
(* JSON texts the remote model may reply with.  A JSON document is one     *)
(* piece of a reply; json.loads accepts a text that is one document with   *)
(* optional white space around it and raises on anything else.             *)
(***************************************************************************)
JSON_POSITIVE == "{\"category\": \"positive\", \"response_text\": \"That is wonderful!\"}"
JSON_HAPPY == "{\"category\": \"happy\", \"response_text\": \"Yay\"}"
JSON_NO_CATEGORY == "{\"response_text\": \"Hello\"}"
JSON_EMPTY_OBJECT == "{}"
JSON_LIST == "[\"positive\"]"
NOT_JSON == "Sure! This entry is positive."

\* a Python dict as a function from its keys
Dict2(k1, v1, k2, v2) == (k1 :> v1) @@ (k2 :> v2)
EmptyDict == [k \in {} |-> ""]

\* the value json.loads gives for each document: its Python type and, for a
\* dict, its items
JsonValue(doc) ==
    CASE doc = JSON_POSITIVE ->
           [type |-> "dict",
            items |-> Dict2("category", "positive", "response_text", "That is wonderful!")]
      [] doc = JSON_HAPPY ->
           [type |-> "dict",
            items |-> Dict2("category", "happy", "response_text", "Yay")]
      [] doc = JSON_NO_CATEGORY ->
           [type |-> "dict", items |-> ("response_text" :> "Hello")]
      [] doc = JSON_EMPTY_OBJECT -> [type |-> "dict", items |-> EmptyDict]
      [] doc = JSON_LIST -> [type |-> "list", items |-> EmptyDict]

JsonDocuments ==
    {JSON_POSITIVE, JSON_HAPPY, JSON_NO_CATEGORY, JSON_EMPTY_OBJECT, JSON_LIST}

\* json.loads(text): ok is FALSE when it raises JSONDecodeError
json_loads(text) ==
    LET body == strip(text, WHITESPACE)
    IN  IF Len(body) = 1 /\ body[1] \in JsonDocuments
        THEN [ok |-> TRUE, value |-> JsonValue(body[1])]
        ELSE [ok |-> FALSE, value |-> [type |-> "none", items |-> EmptyDict]]

\* d.get(key, default)
dict_get(d, key, default) == IF key \in DOMAIN d THEN d[key] ELSE default

\* the character U+0060, named because a string of this module cannot hold it
BACKTICK == "<U+0060>"

FENCE == <<BACKTICK, BACKTICK, BACKTICK>>

\* the ways the remote model wraps a body in its reply
Wrappings(body) ==
    { body,
      <<" ">> \o body \o <<"\n">>,
      FENCE \o body \o FENCE,
      FENCE \o <<"\n">> \o body \o <<"\n">> \o FENCE,
      FENCE \o <<"j", "s", "o", "n", "\n">> \o body \o <<"\n">> \o FENCE,
      FENCE \o <<"J", "S", "O", "N", "\n">> \o body \o <<"\n">> \o FENCE }

\* the message contents of the remote model's replies
ReplyContents ==
    Wrappings(<<JSON_POSITIVE>>)
    \cup {<<doc>> : doc \in JsonDocuments}
    \cup { <<>>, <<" ">>, <<NOT_JSON>>, FENCE \o <<NOT_JSON>> \o FENCE,
           <<JSON_POSITIVE, JSON_POSITIVE>> }

\* what requests.post / raise_for_status / the payload lookup of
\* call_openrouter_api can do: raise, or give the message content
RemoteOutcomes ==
    {[kind |-> k, content |-> <<>>] : k \in {"Timeout", "HTTPError", "KeyError"}}
    \cup {[kind |-> "ok", content |-> c] : c \in ReplyContents}

(***************************************************************************)
(* Logging: log_to_csv and log_to_supabase.  The CSV file is the sequence  *)
(* of its rows, a row the sequence of its cells in fieldnames order, a     *)
(* cell the text csv.DictWriter writes for the value (str(value)).         *)
(***************************************************************************)
fieldnames ==
    <<"timestamp", "prompt", "entry", "category", "response_text", "safety_flagged">>

\* a Python str of the model as the text of a cell
text_of(str) == IF str = "" THEN <<>> ELSE <<str>>

\* str(True), str(False)
str_bool(b) == IF b THEN <<"True">> ELSE <<"False">>

\* datetime.now().isoformat() at clock reading now
isoformat(now) == <<"2025-01-01T00:00:", ToString(now)>>

\* DictWriter.writeheader(): the row of the field names
header_row == [i \in DOMAIN fieldnames |-> <<fieldnames[i]>>]

\* the row DictWriter.writerow() writes
csv_row(now, prompt, entry, category, response_text, safety_flagged) ==
    << isoformat(now), prompt, entry, text_of(category), text_of(response_text),
       str_bool(safety_flagged) >>

\* the characters that make csv.writer quote a field
CSV_SPECIAL == {",", "\"", "\r", "\n"}

\* the cell with every quote character doubled
RECURSIVE double_quotes(_)
double_quotes(cell) ==
    IF cell = <<>> THEN <<>>
    ELSE (IF Head(cell) = "\"" THEN <<"\"", "\"">> ELSE <<Head(cell)>>)
         \o double_quotes(Tail(cell))

\* the mutated csv_field: no field is quoted
csv_field_unquoted(cell) == cell

\* a cell as csv.writer writes it (QUOTE_MINIMAL)
csv_field(cell) ==
    IF \E i \in DOMAIN cell : cell[i] \in CSV_SPECIAL
    THEN <<"\"">> \o double_quotes(cell) \o <<"\"">>
    ELSE cell

\* the fields of a row from the i-th on, separated by commas
RECURSIVE csv_fields(_, _)
csv_fields(row, i) ==
    IF i > Len(row) THEN <<>>
    ELSE csv_field(row[i])
         \o (IF i < Len(row) THEN <<",">> ELSE <<>>)
         \o csv_fields(row, i + 1)

\* a row as csv.writer writes it: its line, ended by the line terminator
csv_line(row) == csv_fields(row, 1) \o <<"\r", "\n">>

\* the byte order mark that the utf-8-sig codec puts before the first write
BOM == "<U+FEFF>"

\* the text of the file whose rows are rows
RECURSIVE csv_lines(_)
csv_lines(rows) ==
    IF rows = <<>> THEN <<>> ELSE csv_line(Head(rows)) \o csv_lines(Tail(rows))

file_text(rows) == IF rows = <<>> THEN <<>> ELSE <<BOM>> \o csv_lines(rows)

\* the mutated log_to_csv: opens the file with mode w, so every call starts it anew
log_to_csv_truncating(file, now, prompt, entry, category, response_text, safety_flagged) ==
    <<header_row, csv_row(now, prompt, entry, category, response_text, safety_flagged)>>

\* log_to_csv once the file is open: the file after the call
log_to_csv(file, now, prompt, entry, category, response_text, safety_flagged) ==
    LET with_header == IF Len(file) = 0 THEN Append(file, header_row) ELSE file
    IN  Append(with_header,
               csv_row(now, prompt, entry, category, response_text, safety_flagged))

\* the row log_to_supabase inserts
supabase_row(now, session_id, prompt, entry, category, response_text, safety_flagged) ==
    [ timestamp |-> isoformat(now), prompt |-> prompt, entry |-> entry,
      category |-> category, response_text |-> response_text,
      safety_flagged |-> safety_flagged,
      system_prompt_version |-> SYSTEM_PROMPT_VERSION,
      user_prompt_version |-> USER_PROMPT_VERSION,
      session_id |-> session_id ]

(***************************************************************************)
(* The machine a call runs on: the stores, the clock, and a record of what *)
(* the call did (the requests it posted, the steps it took, its result).   *)
(***************************************************************************)
NoResult == [kind |-> "none", exc |-> "", value |-> EmptyDict]
Returned(v) == [kind |-> "returned", exc |-> "", value |-> v]
Raised(e) == [kind |-> "raised", exc |-> e, value |-> EmptyDict]

Finish(m, r) == [m EXCEPT !.result = r]

\* a call of log_to_csv; ok is FALSE when makedirs/open raise OSError
LogCsvCall(m, ok, prompt, entry, category, response_text, safety_flagged) ==
    IF ok
    THEN [m EXCEPT
            !.log_file = log_to_csv(@, m.clock, prompt, entry, category,
                                    response_text, safety_flagged),
            !.csv_calls = Append(@, csv_row(m.clock, prompt, entry, category,
                                            response_text, safety_flagged)),
            !.logged = [ prompt |-> prompt, entry |-> entry, category |-> category,
                         response_text |-> response_text,
                         safety_flagged |-> safety_flagged ],
            !.clock = @ + 1,
            !.events = Append(@, "log_to_csv")]
    ELSE [m EXCEPT !.events = Append(@, "log_to_csv raised")]

\* a call of log_to_supabase; ok is FALSE when the insert raises, which the
\* function catches and prints
LogSupabaseCall(m, ok, session_id, prompt, entry, category, response_text, safety_flagged) ==
    IF ok
    THEN [m EXCEPT
            !.supabase_logs = Append(@, supabase_row(m.clock, session_id, prompt, entry,
                                         category, response_text, safety_flagged)),
            !.clock = @ + 1,
            !.events = Append(@, "log_to_supabase")]
    ELSE [m EXCEPT !.clock = @ + 1,
                   !.events = Append(@, "log_to_supabase failed")]

(***************************************************************************)
(* call_openrouter_api.                                                    *)
(***************************************************************************)
\* Python None and str as values of one shape
None == [is_none |-> TRUE, text |-> <<>>]
Str(t) == [is_none |-> FALSE, text |-> t]

\* not x, for x a str or None
falsy(x) == x.is_none \/ x.text = <<>>

\* the requests posted and the value returned; remote is what the post,
\* raise_for_status and the payload lookup do
call_openrouter_api(api_key, messages, remote) ==
    IF api_key = ""
    THEN [requests |-> <<>>, value |-> None]
    ELSE LET request == [ url |-> OPENROUTER_API_BASE_URL,
                          authorization |-> <<"Bearer ", api_key>>,
                          model |-> OPENROUTER_MODEL,
                          messages |-> messages ]
         IN  [ requests |-> <<request>>,
               value |-> IF remote.kind = "ok" THEN Str(remote.content) ELSE None ]

(***************************************************************************)
(* classify_and_respond.                                                   *)
(***************************************************************************)
\* s.replace(old, new), old not empty
RECURSIVE replace(_, _, _)
replace(s, old, new) ==
    IF s = <<>> THEN <<>>
    ELSE IF startswith(s, old)
         THEN new \o replace(SubSeq(s, Len(old) + 1, Len(s)), old, new)
         ELSE <<Head(s)>> \o replace(Tail(s), old, new)

\* the condition of the loop over SAFETY_RED_FLAGS: some phrase scores at
\* least the threshold against the lower-cased entry
red_flag_hit(last_entry) ==
    \E i \in DOMAIN SAFETY_RED_FLAGS :
        partial_ratio(lower(last_entry), SAFETY_RED_FLAGS[i]) >= FUZZY_MATCH_THRESHOLD

\* red_flag_hit over the entries of the model, evaluated once
RedFlagHits == {e \in Entries : red_flag_hit(e)}

\* the mutated reflection: the turn is numbered index, not index + 1
reflection_zero_based(index, prompt, entry) ==
    <<"Reflection #", ToString(index), ". ", "Your journal prompt is: **\"">>
    \o strip(prompt, WHITESPACE)
    \o <<"\"**.", "The user's entry is: **\"">>
    \o entry
    \o <<"\"**", "\n">>

\* the text added to reflections for one turn
reflection(index, prompt, entry) ==
    <<"Reflection #", ToString(index + 1), ". ", "Your journal prompt is: **\"">>
    \o strip(prompt, WHITESPACE)
    \o <<"\"**.", "The user's entry is: **\"">>
    \o entry
    \o <<"\"**", "\n">>

\* reflections after the loop over enumerate(prompts), from index on
RECURSIVE build_reflections(_, _, _)
build_reflections(prompts, conversation, index) ==
    IF index >= Len(prompts) THEN <<>>
    ELSE reflection(index, prompts[index + 1], conversation[index + 1])
         \o build_reflections(prompts, conversation, index + 1)

\* the user prompt: the template with the reflections substituted
build_user_prompt(template, prompts, conversation) ==
    replace(template, <<"{{reflections}}">>,
            strip(build_reflections(prompts, conversation, 0), WHITESPACE))

\* cleaned, as json.loads receives it
clean_reply(raw_response) ==
    LET c1 == strip(raw_response, {BACKTICK, " ", "\n"})
        c2 == IF startswith(lower(c1), <<"j", "s", "o", "n">>)
              THEN strip(SubSeq(c1, 5, Len(c1)), WHITESPACE)
              ELSE c1
        c3 == IF startswith(c2, FENCE \o <<"j", "s", "o", "n">>)
              THEN strip(replace(c2, FENCE \o <<"j", "s", "o", "n">>, <<>>), WHITESPACE)
              ELSE c2
        c4 == IF endswith(c3, FENCE)
              THEN strip(SubSeq(c3, 1, Len(c3) - 3), WHITESPACE)
              ELSE c3
    IN  c4

\* a local variable of the call: unbound until an assignment runs
Unbound == [bound |-> FALSE, value |-> <<>>]
Bound(v) == [bound |-> TRUE, value |-> v]

\* the except clause: log the parsing error and return it
except_branch(m, env, session_id, prompt, last_entry) ==
    IF ~env.csv_except_ok
    THEN Finish(LogCsvCall(m, FALSE, prompt, last_entry, "unclear",
                           PARSING_ERROR_MESSAGE, FALSE),
                Raised("OSError"))
    ELSE LET m1 == LogCsvCall(m, TRUE, prompt, last_entry, "unclear",
                              PARSING_ERROR_MESSAGE, FALSE)
             m2 == LogSupabaseCall(m1, env.supabase_ok, session_id, prompt, last_entry,
                                   "unclear", PARSING_ERROR_MESSAGE, FALSE)
         IN  Finish(m2, Returned(Dict2("category", "unclear",
                                       "response_text", PARSING_ERROR_MESSAGE)))

\* the try block: clean the reply, parse it, log it and return the parsed value
try_branch(m, env, session_id, prompt, last_entry, raw_response) ==
    LET loaded == json_loads(clean_reply(raw_response))
        parsed == loaded.value
    IN  IF ~loaded.ok
        THEN except_branch(m, env, session_id, prompt, last_entry)
        ELSE IF parsed.type # "dict"
        THEN \* parsed.get raises AttributeError
             except_branch(m, env, session_id, prompt, last_entry)
        ELSE IF ~env.csv_try_ok
        THEN except_branch(LogCsvCall(m, FALSE, prompt, last_entry,
                                      dict_get(parsed.items, "category", "unknown"),
                                      dict_get(parsed.items, "response_text", ""), FALSE),
                           env, session_id, prompt, last_entry)
        ELSE LET m1 == LogCsvCall(m, TRUE, prompt, last_entry,
                                  dict_get(parsed.items, "category", "unknown"),
                                  dict_get(parsed.items, "response_text", ""), FALSE)
                 m2 == LogSupabaseCall(m1, env.supabase_ok, session_id, prompt, last_entry,
                                       dict_get(parsed.items, "category", "unknown"),
                                       dict_get(parsed.items, "response_text", ""), FALSE)
             IN  Finish(m2, Returned(parsed.items))

\* the body of the loop over SAFETY_RED_FLAGS when a phrase matches: it reads
\* the local prompt to log, which only the later loop over prompts assigns
safety_branch(m, env, session_id, prompt_local, last_entry) ==
    IF ~prompt_local.bound
    THEN Finish(m, Raised("UnboundLocalError"))
    ELSE IF ~env.csv_try_ok
    THEN Finish(LogCsvCall(m, FALSE, prompt_local.value, last_entry, "safety",
                           SAFETY_MESSAGE, TRUE),
                Raised("OSError"))
    ELSE LET m1 == LogCsvCall(m, TRUE, prompt_local.value, last_entry, "safety",
                              SAFETY_MESSAGE, TRUE)
             m2 == LogSupabaseCall(m1, env.supabase_ok, session_id, prompt_local.value,
                                   last_entry, "safety", SAFETY_MESSAGE, TRUE)
         IN  Finish(m2, Returned(Dict2("category", "safety",
                                       "response_text", SAFETY_MESSAGE)))

\* from the template test to the end of the function
after_safety_check(m, env, templates, api_key, session_id, prompts, conversation, last_entry) ==
    IF templates.system = <<>> \/ templates.user = <<>>
    THEN Finish(m, Returned(Dict2("category", "unclear",
                                  "response_text", MISSING_TEMPLATES_MESSAGE)))
    ELSE LET user_prompt == build_user_prompt(templates.user, prompts, conversation)
             \* the loop variable after the loop over enumerate(prompts)
             prompt == prompts[Len(prompts)]
             messages == << [role |-> "system", content |-> templates.system],
                            [role |-> "user", content |-> user_prompt] >>
             called == call_openrouter_api(api_key, messages, env.remote)
             m1 == [m EXCEPT !.http_requests = @ \o called.requests,
                             !.events = @ \o [i \in DOMAIN called.requests |-> "http_post"],
                             !.raw_response = called.value]
         IN  IF falsy(called.value)
             THEN Finish(m1, Returned(Dict2("category", "unclear",
                                            "response_text", UNREACHABLE_MESSAGE)))
             ELSE try_branch(m1, env, session_id, prompt, last_entry, called.value.text)

\* the mutated classify_and_respond: the safety loop is missing
classify_and_respond_unchecked(m, env, templates, api_key, session_id, prompts, conversation) ==
    IF Len(prompts) = 0
    THEN Finish(m, Raised("KeyError"))
    ELSE after_safety_check(m, env, templates, api_key, session_id, prompts,
                            conversation, conversation[Len(prompts)])

\* classify_and_respond(api_key, session_id, prompts, conversation) run on
\* machine m, with the module-level templates and the environment env
classify_and_respond(m, env, templates, api_key, session_id, prompts, conversation) ==
    LET last_prompt_index == Len(prompts) - 1
    IN  IF (last_prompt_index + 1) \notin DOMAIN conversation
        THEN \* conversation[last_prompt_index]
             Finish(m, Raised("KeyError"))
        ELSE LET last_entry == conversation[last_prompt_index + 1]
                 m1 == [m EXCEPT !.events = Append(@, "safety_check")]
             IN  IF last_entry \in RedFlagHits
                 THEN safety_branch(m1, env, session_id, Unbound, last_entry)
                 ELSE after_safety_check(m1, env, templates, api_key, session_id,
                                         prompts, conversation, last_entry)

(***************************************************************************)
(* app.py: the session state and the functions that change it.             *)
(***************************************************************************)
\* the value of APP_STATES
APP_STATES == <<"initial", "entry_submitted", "followup_submitted">>

\* list(PROMPTS.keys()) and PROMPTS, as prompts.json gives them
MOODS == <<"happy", "sad">>
PROMPTS ==
    [ happy |-> << <<"What made you smile today?">>, <<"Who are you grateful for?">> >>,
      sad   |-> << <<"What is weighing on you?">> >> ]

SNAG_MESSAGE == <<"We hit a snag talking to the journaling assistant.">>
CONCLUDED_MESSAGE == <<"Reflection concluded. Thank you for your deep insights!">>

\* what analyze_entry(api_key, text) returns: one of the five categories
analyze_entry_outcomes == {"safety", "instruction", "quiet", "positive", "unclear"}

\* what get_journal_response(api_key, SYSTEM_PROMPT, input) returns: a
\* response, or nothing
AI_RESPONSE == <<"I hear you. What was that like?">>
get_journal_response_outcomes == {None, Str(<<>>), Str(AI_RESPONSE)}

\* what the user has typed into a text area when a form is submitted
TypedTexts == {ENTRY_EMPTY, ENTRY_BLANK, ENTRY_PROMOTION}

\* st.session_state after the initialisation block
InitialSession ==
    [ app_state |-> "initial",
      journal_entry_text |-> <<>>,
      ai_initial_response |-> <<>>,
      followup_entry_text |-> <<>>,
      ai_followup_response |-> <<>>,
      mood_selected |-> MOODS[1],
      current_prompt |-> PROMPTS[MOODS[1]][1],
      error_message |-> <<>>,
      current_reflection_concluded |-> FALSE ]

\* the mutated set_app_state: the membership test is missing
set_app_state_unguarded(s, state) == [s EXCEPT !.app_state = state]

\* set_app_state(state) on session state s
set_app_state(s, state) ==
    IF state \in Range(APP_STATES) THEN [s EXCEPT !.app_state = state] ELSE s

\* the mutated reset_app: current_reflection_concluded is in neither list
reset_app_keeping_flag(s) ==
    [ app_state |-> "initial",
      journal_entry_text |-> <<>>,
      ai_initial_response |-> <<>>,
      followup_entry_text |-> <<>>,
      ai_followup_response |-> <<>>,
      mood_selected |-> MOODS[1],
      current_prompt |-> PROMPTS[MOODS[1]][1],
      error_message |-> <<>>,
      current_reflection_concluded |-> s.current_reflection_concluded ]

\* reset_app() on session state s: the keys are deleted, then all assigned
reset_app(s) ==
    [ app_state |-> "initial",
      journal_entry_text |-> <<>>,
      ai_initial_response |-> <<>>,
      followup_entry_text |-> <<>>,
      ai_followup_response |-> <<>>,
      mood_selected |-> MOODS[1],
      current_prompt |-> PROMPTS[MOODS[1]][1],
      error_message |-> <<>>,
      current_reflection_concluded |-> FALSE ]

\* what a function of the script leaves: the session state, whether it asked
\* for a classification and for a response, and whether it ended in
\* st.rerun(), which stops the script run where it is called
Done(s, classified, asked_ai, rerun) ==
    [ session |-> s, classified |-> classified, asked_ai |-> asked_ai, rerun |-> rerun,
      shown |-> <<>> ]

\* the messages a handler puts on the page, by the st function that shows them
BLANK_WARNING == <<"st.warning">>
SAFETY_RESOURCES == <<"st.error", "st.markdown", "st.info">>
INSTRUCTION_WARNING == <<"st.warning">>
POSITIVE_SUCCESS == <<"st.success">>

\* r, the handler having shown these messages on the way
Show(messages, r) == [r EXCEPT !.shown = messages \o @]

\* the mutated get_ai_response_and_set_state: the response is stored and the
\* state set without the test of the response
get_ai_response_and_set_state_untested(s, response, is_followup) ==
    LET s1 == [s EXCEPT !.error_message = <<>>]
        s2 == IF is_followup
              THEN [s1 EXCEPT !.ai_followup_response = response.text]
              ELSE [s1 EXCEPT !.ai_initial_response = response.text]
        s3 == IF ~is_followup
              THEN set_app_state(s2, "entry_submitted")
              ELSE set_app_state(s2, "followup_submitted")
    IN  Done(s3, FALSE, TRUE, TRUE)

\* get_ai_response_and_set_state(input, is_followup) on session state s;
\* response is what get_journal_response returns
get_ai_response_and_set_state(s, response, is_followup) ==
    LET s1 == [s EXCEPT !.error_message = <<>>]
    IN  IF ~falsy(response)
        THEN LET s2 == IF is_followup
                       THEN [s1 EXCEPT !.ai_followup_response = response.text]
                       ELSE [s1 EXCEPT !.ai_initial_response = response.text]
                 s3 == IF ~is_followup
                       THEN set_app_state(s2, "entry_submitted")
                       ELSE set_app_state(s2, "followup_submitted")
             IN  Done(s3, FALSE, TRUE, TRUE)
        ELSE Done([s1 EXCEPT !.error_message = SNAG_MESSAGE], FALSE, TRUE, FALSE)

\* the mutated handle_initial_submission: the test of the stripped text is
\* missing
handle_initial_submission_unchecked(s, outcome, response) ==
    LET s1 == [s EXCEPT !.error_message = <<>>]
        s2 == [s1 EXCEPT !.current_reflection_concluded = FALSE]
        ai == get_ai_response_and_set_state(s2, response, FALSE)
    IN  IF outcome \in {"safety", "instruction"}
        THEN Done(set_app_state([s2 EXCEPT !.ai_initial_response = <<>>],
                                "entry_submitted"), TRUE, FALSE, FALSE)
        ELSE IF outcome = "quiet"
        THEN [ai EXCEPT !.classified = TRUE]
        ELSE IF outcome = "positive"
        THEN IF ai.rerun
             THEN [ai EXCEPT !.classified = TRUE]
             ELSE Done([ai.session EXCEPT !.current_reflection_concluded = TRUE],
                       TRUE, TRUE, FALSE)
        ELSE Done(s2, TRUE, FALSE, FALSE)

\* handle_initial_submission() on session state s; outcome is what
\* analyze_entry returns and response what get_journal_response returns
handle_initial_submission(s, outcome, response) ==
    LET s1 == [s EXCEPT !.error_message = <<>>]
        s2 == [s1 EXCEPT !.current_reflection_concluded = FALSE]
        ai == get_ai_response_and_set_state(s2, response, FALSE)
    IN  IF strip(s1.journal_entry_text, WHITESPACE) = <<>>
        THEN Show(BLANK_WARNING, Done(s1, FALSE, FALSE, FALSE))
        ELSE IF outcome = "safety"
        THEN Show(SAFETY_RESOURCES,
                  Done(set_app_state([s2 EXCEPT !.ai_initial_response = <<>>],
                                     "entry_submitted"), TRUE, FALSE, FALSE))
        ELSE IF outcome = "instruction"
        THEN Show(INSTRUCTION_WARNING,
                  Done(set_app_state([s2 EXCEPT !.ai_initial_response = <<>>],
                                     "entry_submitted"), TRUE, FALSE, FALSE))
        ELSE IF outcome = "quiet"
        THEN [ai EXCEPT !.classified = TRUE]
        ELSE IF outcome = "positive"
        THEN IF ai.rerun
             THEN \* st.rerun() has stopped the script inside the call
                  [ai EXCEPT !.classified = TRUE]
             ELSE Done([ai.session EXCEPT !.current_reflection_concluded = TRUE],
                       TRUE, TRUE, FALSE)
        ELSE Done(s2, TRUE, FALSE, FALSE)

\* the mutated handle_followup_submission: a positive follow-up is treated
\* as an instruction is, and leaves the reflection open
handle_followup_submission_open(s, outcome, response) ==
    LET s1 == [s EXCEPT !.error_message = <<>>]
        s2 == [s1 EXCEPT !.current_reflection_concluded = FALSE]
    IN  IF strip(s1.followup_entry_text, WHITESPACE) = <<>>
        THEN Show(BLANK_WARNING, Done(s1, FALSE, FALSE, FALSE))
        ELSE IF outcome = "quiet"
        THEN [get_ai_response_and_set_state(s2, response, TRUE) EXCEPT !.classified = TRUE]
        ELSE IF outcome \in {"positive", "instruction", "safety"}
        THEN Done(set_app_state([s2 EXCEPT !.ai_followup_response = <<>>,
                                           !.followup_entry_text = <<>>,
                                           !.current_reflection_concluded = FALSE],
                                "entry_submitted"), TRUE, FALSE, TRUE)
        ELSE Done(s2, TRUE, FALSE, FALSE)

\* handle_followup_submission() on session state s
handle_followup_submission(s, outcome, response) ==
    LET s1 == [s EXCEPT !.error_message = <<>>]
        s2 == [s1 EXCEPT !.current_reflection_concluded = FALSE]
    IN  IF strip(s1.followup_entry_text, WHITESPACE) = <<>>
        THEN Show(BLANK_WARNING, Done(s1, FALSE, FALSE, FALSE))
        ELSE IF outcome = "positive"
        THEN Show(POSITIVE_SUCCESS,
                  Done(set_app_state([s2 EXCEPT !.ai_followup_response = CONCLUDED_MESSAGE,
                                                !.followup_entry_text = <<>>,
                                                !.error_message = <<>>,
                                                !.current_reflection_concluded = TRUE],
                                     "entry_submitted"), TRUE, FALSE, TRUE))
        ELSE IF outcome = "quiet"
        THEN [get_ai_response_and_set_state(s2, response, TRUE) EXCEPT !.classified = TRUE]
        ELSE IF outcome = "instruction"
        THEN Show(INSTRUCTION_WARNING,
                  Done(set_app_state([s2 EXCEPT !.ai_followup_response = <<>>,
                                                !.followup_entry_text = <<>>,
                                                !.current_reflection_concluded = FALSE],
                                     "entry_submitted"), TRUE, FALSE, TRUE))
        ELSE IF outcome = "safety"
        THEN Show(SAFETY_RESOURCES,
                  Done(set_app_state([s2 EXCEPT !.ai_followup_response = <<>>,
                                                !.followup_entry_text = <<>>,
                                                !.current_reflection_concluded = FALSE],
                                     "entry_submitted"), TRUE, FALSE, TRUE))
        ELSE Done(s2, TRUE, FALSE, FALSE)

\* the on_change callback of the mood selector on session state s
mood_changed(s) ==
    [s EXCEPT !.current_prompt = PROMPTS[s.mood_selected][1],
              !.journal_entry_text = <<>>,
              !.ai_initial_response = <<>>,
              !.followup_entry_text = <<>>,
              !.ai_followup_response = <<>>,
              !.app_state = "initial",
              !.error_message = <<>>]

\* the script shows the initial form
initial_form_shown(s) == s.app_state = "initial"

\* the script shows the follow-up form
followup_form_shown(s) ==
    /\ s.app_state \in {"entry_submitted", "followup_submitted"}
    /\ ~s.current_reflection_concluded

\* no handler has run yet
NoOp ==
    [ op |-> "none", blank |-> FALSE, outcome |-> "none", classified |-> FALSE,
      asked_ai |-> FALSE, got_response |-> FALSE, rerun |-> FALSE, shown |-> <<>> ]

\* no submission of the current entry has been classified yet
NoChain == [initial |-> "none", followup |-> "none"]

(***************************************************************************)
(* State.                                                                  *)
(***************************************************************************)
VARIABLES
    SYSTEM_PROMPT,          \* module-level: system_prompt.txt, empty when missing
    USER_PROMPT_TEMPLATE,   \* module-level: user_prompt.txt, empty when missing
    log_file,               \* logs/responses_log.csv: its rows
    supabase_logs,          \* the rows of the remote table logs
    clock,                  \* what datetime.now() reads next
    csv_calls,              \* history: the rows of the completed log_to_csv calls
    calls,                  \* history: number of classify_and_respond calls
    direct_logs,            \* history: number of direct log_to_csv calls
    call,                   \* history: the arguments of the last classify_and_respond call
    raw_response,           \* history: what call_openrouter_api returned in that call
    http_requests,          \* history: the requests that call posted
    events,                 \* history: the steps that call took, in order
    result,                 \* history: how that call ended
    logged,                 \* history: the arguments of the last completed log_to_csv call
    session,                \* app.py: st.session_state
    prev_session,           \* history: st.session_state before the last handler ran
    last_op,                \* history: the last handler that ran, and what it did
    chain,                  \* history: how the submissions of the current entry were classified
    steps                   \* history: number of handlers run

utils_vars ==
    << log_file, supabase_logs, clock, csv_calls, calls, direct_logs, call, raw_response,
       http_requests, events, result, logged >>

app_vars == << session, prev_session, last_op, chain, steps >>

vars == << SYSTEM_PROMPT, USER_PROMPT_TEMPLATE, utils_vars, app_vars >>

\* no log_to_csv call has completed yet
NoRecord ==
    [ prompt |-> <<>>, entry |-> <<>>, category |-> "", response_text |-> "",
      safety_flagged |-> FALSE ]

NoCall == [api_key |-> "", session_id |-> "", prompts |-> <<>>, conversation |-> <<>>]

\* the conversations that go with a prompts list: one entry per prompt
Conversations(prompts) ==
    IF Len(prompts) = 0 THEN {<<>>}
    ELSE {earlier \o <<last>> :
            earlier \in [1..(Len(prompts) - 1) -> EarlierEntries], last \in Entries}

\* what the world outside the call does during it, when nothing fails
CalmEnvironment(remote) ==
    [remote |-> remote, csv_try_ok |-> TRUE, csv_except_ok |-> TRUE, supabase_ok |-> TRUE]

DefaultRemote == [kind |-> "ok", content |-> <<JSON_POSITIVE>>]

\* the records a direct caller logs
DirectRecords ==
    { [prompt |-> PROMPT_WELL, entry |-> ENTRY_PROMOTION, category |-> "positive",
       response_text |-> "That is wonderful!", safety_flagged |-> FALSE],
      [prompt |-> PROMPT_WELL, entry |-> ENTRY_EMPTY, category |-> "unknown",
       response_text |-> "", safety_flagged |-> FALSE],
      [prompt |-> PROMPT_FEEL, entry |-> ENTRY_KILL, category |-> "safety",
       response_text |-> SAFETY_MESSAGE, safety_flagged |-> TRUE],
      [prompt |-> PROMPT_FEEL, entry |-> ENTRY_QUOTED, category |-> "quiet",
       response_text |-> "Tell me more.", safety_flagged |-> TRUE] }

\* import of utils.py: each template file is read, or missing; no log exists;
\* first run of app.py: the session state is initialised
Init ==
    /\ SYSTEM_PROMPT \in {<<>>, SYSTEM_PROMPT_TEXT}
    /\ USER_PROMPT_TEMPLATE \in {<<>>, USER_PROMPT_TEXT}
    /\ log_file = <<>>
    /\ supabase_logs = <<>>
    /\ clock = 0
    /\ csv_calls = <<>>
    /\ calls = 0
    /\ direct_logs = 0
    /\ call = NoCall
    /\ raw_response = None
    /\ http_requests = <<>>
    /\ events = <<>>
    /\ result = NoResult
    /\ logged = NoRecord
    /\ session = InitialSession
    /\ prev_session = InitialSession
    /\ last_op = NoOp
    /\ chain = NoChain
    /\ steps = 0

\* A caller runs classify_and_respond.  The outcome of the remote request
\* is drawn only when the call posts one, and the outcomes of the loggers
\* only when the call logs: what a step the call never takes would have
\* done is no part of the state.
ClassifyAndRespond ==
    /\ calls < MaxCalls
    /\ \E api_key \in ApiKeys, session_id \in SessionIds, prompts \in PromptLists :
       \E conversation \in Conversations(prompts) :
          LET m0 == [ log_file |-> log_file, supabase_logs |-> supabase_logs,
                      clock |-> clock, csv_calls |-> csv_calls,
                      raw_response |-> None, http_requests |-> <<>>,
                      events |-> <<>>, result |-> NoResult, logged |-> logged ]
              templates == [system |-> SYSTEM_PROMPT, user |-> USER_PROMPT_TEMPLATE]
              run(env) == classify_and_respond(m0, env, templates, api_key, session_id,
                                               prompts, conversation)
              posts == run(CalmEnvironment(DefaultRemote)).http_requests # <<>>
              logs(remote) == "log_to_csv" \in Range(run(CalmEnvironment(remote)).events)
          IN  \E remote \in (IF posts THEN RemoteOutcomes ELSE {DefaultRemote}) :
              \E oks \in {IF logs(remote) THEN BOOLEAN ELSE {TRUE}} :
              \E csv_try_ok \in oks, csv_except_ok \in oks, supabase_ok \in oks :
              \E m \in {run([ remote |-> remote, csv_try_ok |-> csv_try_ok,
                              csv_except_ok |-> csv_except_ok,
                              supabase_ok |-> supabase_ok ])} :
                            /\ log_file' = m.log_file
                            /\ supabase_logs' = m.supabase_logs
                            /\ clock' = m.clock
                            /\ csv_calls' = m.csv_calls
                            /\ raw_response' = m.raw_response
                            /\ http_requests' = m.http_requests
                            /\ events' = m.events
                            /\ result' = m.result
                            /\ logged' = m.logged
                            /\ call' = [api_key |-> api_key, session_id |-> session_id,
                                        prompts |-> prompts,
                                        conversation |-> conversation]
    /\ calls' = calls + 1
    /\ UNCHANGED <<SYSTEM_PROMPT, USER_PROMPT_TEMPLATE, direct_logs, app_vars>>

\* a caller runs log_to_csv; it raises when the file cannot be opened
LogToCsv ==
    /\ direct_logs < MaxDirectLogs
    /\ \E r \in DirectRecords, ok \in BOOLEAN :
          LET m0 == [ log_file |-> log_file, supabase_logs |-> supabase_logs,
                      clock |-> clock, csv_calls |-> csv_calls,
                      raw_response |-> raw_response, http_requests |-> http_requests,
                      events |-> events, result |-> result, logged |-> logged ]
              m == LogCsvCall(m0, ok, r.prompt, r.entry, r.category, r.response_text,
                              r.safety_flagged)
          IN  /\ log_file' = m.log_file
              /\ clock' = m.clock
              /\ csv_calls' = m.csv_calls
              /\ logged' = m.logged
    /\ direct_logs' = direct_logs + 1
    /\ UNCHANGED << SYSTEM_PROMPT, USER_PROMPT_TEMPLATE, supabase_logs, calls, call,
                    raw_response, http_requests, events, result, app_vars >>

\* the classifier and its callers
Next == ClassifyAndRespond

Spec == Init /\ [][Next]_vars

\* the CSV logger and its callers
NextLog == LogToCsv

SpecLog == Init /\ [][NextLog]_vars

(***************************************************************************)
(* The Streamlit script of app.py: one action per user interaction.  A     *)
(* handler runs inside the script run that the interaction starts.         *)
(***************************************************************************)
\* the script stops before the session state when system_prompt.txt is missing
AppRuns == SYSTEM_PROMPT # <<>>

\* what last_op records of a handler that left r
OpRecord(op, text, outcome, response, r) ==
    [ op |-> op,
      blank |-> strip(text, WHITESPACE) = <<>>,
      outcome |-> IF r.classified THEN outcome ELSE "none",
      classified |-> r.classified,
      asked_ai |-> r.asked_ai,
      got_response |-> r.asked_ai /\ ~falsy(response),
      rerun |-> r.rerun,
      shown |-> r.shown ]

\* the user submits the initial form: the text area's value is stored, then
\* handle_initial_submission runs
SubmitEntry ==
    /\ steps < MaxSteps
    /\ AppRuns
    /\ initial_form_shown(session)
    /\ \E text \in TypedTexts, outcome \in analyze_entry_outcomes,
          response \in get_journal_response_outcomes :
          LET typed == [session EXCEPT !.journal_entry_text = text]
              r == handle_initial_submission(typed, outcome, response)
          IN  /\ session' = r.session
              /\ last_op' = OpRecord("initial", text, outcome, response, r)
              /\ chain' = IF r.classified
                          THEN [initial |-> outcome, followup |-> "none"]
                          ELSE chain
    /\ prev_session' = session
    /\ steps' = steps + 1
    /\ UNCHANGED <<SYSTEM_PROMPT, USER_PROMPT_TEMPLATE, utils_vars>>

\* the user submits the follow-up form: the text area's value is stored,
\* then handle_followup_submission runs
SubmitFollowup ==
    /\ steps < MaxSteps
    /\ AppRuns
    /\ followup_form_shown(session)
    /\ \E text \in TypedTexts, outcome \in analyze_entry_outcomes,
          response \in get_journal_response_outcomes :
          LET typed == [session EXCEPT !.followup_entry_text = text]
              r == handle_followup_submission(typed, outcome, response)
          IN  /\ session' = r.session
              /\ last_op' = OpRecord("followup", text, outcome, response, r)
              /\ chain' = IF r.classified
                          THEN [chain EXCEPT !.followup = outcome]
                          ELSE chain
    /\ prev_session' = session
    /\ steps' = steps + 1
    /\ UNCHANGED <<SYSTEM_PROMPT, USER_PROMPT_TEMPLATE, utils_vars>>

\* the user clicks Start New Entry: reset_app runs as the button's callback
ResetApp ==
    /\ steps < MaxSteps
    /\ AppRuns
    /\ session' = reset_app(session)
    /\ last_op' = [NoOp EXCEPT !.op = "reset"]
    /\ chain' = NoChain
    /\ prev_session' = session
    /\ steps' = steps + 1
    /\ UNCHANGED <<SYSTEM_PROMPT, USER_PROMPT_TEMPLATE, utils_vars>>

\* the user picks another mood: the on_change callback runs, then the
\* script stores the selector's value in mood_selected
SelectMood ==
    /\ steps < MaxSteps
    /\ AppRuns
    /\ \E mood \in Range(MOODS) \ {session.mood_selected} :
          session' = [mood_changed(session) EXCEPT !.mood_selected = mood]
    /\ last_op' = [NoOp EXCEPT !.op = "mood"]
    /\ prev_session' = session
    /\ steps' = steps + 1
    /\ UNCHANGED <<SYSTEM_PROMPT, USER_PROMPT_TEMPLATE, utils_vars, chain>>

\* the journaling app and its user
NextApp == SubmitEntry \/ SubmitFollowup \/ ResetApp \/ SelectMood

SpecApp == Init /\ [][NextApp]_vars

(***************************************************************************)
(* Vocabulary of the properties.                                           *)
(***************************************************************************)
\* the five categories of a classification result
CATEGORIES == {"safety", "instruction", "quiet", "positive", "unclear"}

\* a classify_and_respond call has run and ended
Called == result.kind # "none"

\* the entry of the last turn of that call (the call has at least one prompt)
HasLastEntry == Called /\ call.prompts # <<>>
LastEntry == call.conversation[Len(call.prompts)]

\* the entries with fuzzy similarity >= 80 to some phrase of SAFETY_RED_FLAGS
SafetyMatching ==
    {e \in Entries :
        \E i \in DOMAIN SAFETY_RED_FLAGS :
            partial_ratio(lower(e), SAFETY_RED_FLAGS[i]) >= 80}

\* the call returned a dictionary with this category
ReturnedCategory(c) ==
    /\ result.kind = "returned"
    /\ "category" \in DOMAIN result.value
    /\ result.value["category"] = c

\* the templates are loaded and the key is set: nothing but the safety
\* check stands between the call and the remote request
RemoteConfigured ==
    /\ SYSTEM_PROMPT # <<>>
    /\ USER_PROMPT_TEMPLATE # <<>>
    /\ call.api_key # ""

\* the remote model replied to that call with a message content
GotReply == Called /\ ~raw_response.is_none

\* number of steps of that call named e
CountEvents(e) == Cardinality({i \in DOMAIN events : events[i] = e})

\* JSON objects with a category among the five and a response_text
GoodDocuments ==
    {doc \in JsonDocuments :
        /\ JsonValue(doc).type = "dict"
        /\ DOMAIN JsonValue(doc).items = {"category", "response_text"}
        /\ JsonValue(doc).items["category"] \in CATEGORIES}

\* what that call returns when both loggers work
ResultWithWorkingLoggers ==
    classify_and_respond(
        [ log_file |-> <<>>, supabase_logs |-> <<>>, clock |-> 0, csv_calls |-> <<>>,
          raw_response |-> None, http_requests |-> <<>>, events |-> <<>>,
          result |-> NoResult, logged |-> logged ],
        CalmEnvironment([kind |-> "ok", content |-> raw_response.text]),
        [system |-> SYSTEM_PROMPT, user |-> USER_PROMPT_TEMPLATE],
        call.api_key, call.session_id, call.prompts, call.conversation).result

(***************************************************************************)
(* C1.  A call whose last entry matches a phrase of SAFETY_RED_FLAGS with  *)
(* fuzzy similarity >= 80 returns a result whose category is "safety",     *)
(* whatever the rest of its arguments.                                     *)
(***************************************************************************)
C1_SafetyMatchReturnsSafety ==
    (HasLastEntry /\ LastEntry \in SafetyMatching) => ReturnedCategory("safety")

(***************************************************************************)
(* C2.  When the last entry matches a safety phrase the call posts no      *)
(* request to the remote model, and it has ended; in every call a request  *)
(* is posted only after the safety check.                                  *)
(***************************************************************************)
C2_NoRemoteCallOnSafetyMatch ==
    /\ (HasLastEntry /\ LastEntry \in SafetyMatching) =>
          (http_requests = <<>> /\ CountEvents("http_post") = 0)
    /\ \A i \in DOMAIN events :
          events[i] = "http_post" => \E j \in 1..(i - 1) : events[j] = "safety_check"
    /\ CountEvents("http_post") = Len(http_requests)

\* a matching entry in a call that would otherwise have reached the remote model
C2_Witness ==
    /\ HasLastEntry
    /\ LastEntry \in SafetyMatching
    /\ RemoteConfigured
    /\ CountEvents("safety_check") = 1
    /\ http_requests = <<>>

(***************************************************************************)
(* C3.  Every result the call returns has a category, one of safety,       *)
(* instruction, quiet, positive, unclear.                                  *)
(***************************************************************************)
C3_CategoryIsOneOfFive ==
    result.kind = "returned" =>
        /\ "category" \in DOMAIN result.value
        /\ result.value["category"] \in CATEGORIES

(***************************************************************************)
(* C4.  For a remote reply that is not well-formed JSON after fence        *)
(* stripping, and an entry with no safety match, the call returns exactly  *)
(* category "unclear" with response_text "Parsing error.".                 *)
(***************************************************************************)
C4_MalformedReplyIsParsingError ==
    ( /\ HasLastEntry
      /\ LastEntry \notin SafetyMatching
      /\ GotReply
      /\ ~json_loads(clean_reply(raw_response.text)).ok )
    => result = Returned(Dict2("category", "unclear",
                               "response_text", PARSING_ERROR_MESSAGE))

(***************************************************************************)
(* C5.  The call never raises to its caller: it returns a dictionary, and  *)
(* when the remote call or the parsing failed its category is "unclear"    *)
(* or "quiet".                                                             *)
(***************************************************************************)
C5_NeverRaises ==
    Called =>
        /\ result.kind = "returned"
        /\ (raw_response.is_none \/ ~json_loads(clean_reply(raw_response.text)).ok)
              => (ReturnedCategory("unclear") \/ ReturnedCategory("quiet"))

(***************************************************************************)
(* C6.  Every call that returns a result has appended exactly one record   *)
(* to the log store, on every return path.                                 *)
(***************************************************************************)
C6_OneLogRecordPerReturn ==
    result.kind = "returned" =>
        /\ CountEvents("log_to_csv") = 1
        /\ CountEvents("log_to_supabase") + CountEvents("log_to_supabase failed") = 1

(***************************************************************************)
(* C7.  A failure of either logger does not change what the call returns:  *)
(* the result is the one the call gives with working loggers.              *)
(***************************************************************************)
C7_LoggerFailureKeepsResult ==
    (Called /\ (CountEvents("log_to_csv raised") > 0
                \/ CountEvents("log_to_supabase failed") > 0))
    => result = ResultWithWorkingLoggers

(***************************************************************************)
(* C8.  For an empty or white-space-only entry the classifier returns      *)
(* category "quiet" and makes no remote call.                              *)
(***************************************************************************)
C8_BlankEntryIsQuietWithoutRemoteCall ==
    (HasLastEntry /\ strip(LastEntry, WHITESPACE) = <<>>)
    => (ReturnedCategory("quiet") /\ http_requests = <<>>)

(***************************************************************************)
(* C9.  For a remote reply that is a JSON object with a category among the *)
(* five and a response_text, bare or wrapped in a code fence, and an entry *)
(* with no safety match, the call returns that category and response_text. *)
(***************************************************************************)
C9_WellFormedReplyReturnedUnchanged ==
    \A doc \in GoodDocuments :
        ( /\ HasLastEntry
          /\ LastEntry \notin SafetyMatching
          /\ GotReply
          /\ raw_response.text \in Wrappings(<<doc>>) )
        => result = Returned(JsonValue(doc).items)

(***************************************************************************)
(* C10.  The CSV log is append-only: after any sequence of log_to_csv      *)
(* calls the file is one header row followed by the rows of the completed  *)
(* calls in call order, and no call changes or removes a row written       *)
(* before it.                                                              *)
(***************************************************************************)
CsvFileShape ==
    /\ log_file = (IF csv_calls = <<>> THEN <<>> ELSE <<header_row>> \o csv_calls)
    /\ \A i \in 2..Len(log_file) : log_file[i] # header_row

CsvRowsKept ==
    /\ Len(log_file') >= Len(log_file)
    /\ SubSeq(log_file', 1, Len(log_file)) = log_file

C10_CsvAppendOnly == [](CsvFileShape) /\ [][CsvRowsKept]_vars

\* two completed calls, and one that raised, have left a header and two rows
C10_Witness ==
    /\ direct_logs = 3
    /\ Len(csv_calls) = 2
    /\ Len(log_file) = 3
    /\ log_file[1] = header_row

(***************************************************************************)
(* Vocabulary of the properties of the journaling app.                     *)
(***************************************************************************)
\* the last interaction was this submission, classified as this category
Submitted(op, category) == last_op.op = op /\ last_op.outcome = category

\* a render of the page in this state offers the follow-up form
FollowupFormOffered ==
    /\ session.app_state # "initial"
    /\ ~session.current_reflection_concluded

\* names that are no application state
OtherStateNames == {"", "Initial", "followup", "done"}

(***************************************************************************)
(* C12.  After an initial submission classified "safety" the session holds *)
(* no AI journaling response, and no render offers the follow-up form for  *)
(* that entry until a new entry is started.                                *)
(***************************************************************************)
C12_SafetyEntryHidesFollowupForm ==
    chain.initial = "safety" =>
        /\ session.ai_initial_response = <<>>
        /\ ~FollowupFormOffered

(***************************************************************************)
(* C13.  After an initial submission classified "positive" for which the   *)
(* AI acknowledgment was obtained, current_reflection_concluded is True:   *)
(* the app is in entry_submitted with the follow-up form hidden.           *)
(***************************************************************************)
C13_PositiveEntryConcludes ==
    (Submitted("initial", "positive") /\ last_op.got_response) =>
        /\ session.current_reflection_concluded
        /\ session.app_state = "entry_submitted"
        /\ ~FollowupFormOffered

(***************************************************************************)
(* C14.  Once a follow-up is classified "positive" the reflection is       *)
(* concluded: app_state is entry_submitted, followup_entry_text is empty   *)
(* and current_reflection_concluded is True; and from then on no follow-up *)
(* is submitted, the form being hidden, until a reset or a new initial     *)
(* submission that is classified.                                          *)
(***************************************************************************)
C14_Concluded ==
    /\ Submitted("followup", "positive") =>
          /\ session.app_state = "entry_submitted"
          /\ session.followup_entry_text = <<>>
          /\ session.current_reflection_concluded
    /\ chain.followup = "positive" =>
          /\ session.current_reflection_concluded
          /\ ~FollowupFormOffered

C14_NoFurtherFollowup == chain.followup = "positive" => last_op'.op # "followup"

C14_PositiveFollowupConcludes == [](C14_Concluded) /\ [][C14_NoFurtherFollowup]_vars

\* a positive follow-up that came after an answered quiet follow-up
C14_Witness ==
    /\ Submitted("followup", "positive")
    /\ prev_session.app_state = "followup_submitted"
    /\ session.app_state = "entry_submitted"
    /\ session.current_reflection_concluded

(***************************************************************************)
(* C15.  get_ai_response_and_set_state, when the generator returns no      *)
(* response, leaves app_state and both AI response fields as they were and *)
(* sets a non-empty error_message; when it returns a response it stores it *)
(* in ai_followup_response for a follow-up and in ai_initial_response      *)
(* otherwise, sets app_state to followup_submitted or entry_submitted      *)
(* respectively, and leaves error_message empty.                           *)
(***************************************************************************)
C15_AiResponseSetsState ==
    /\ \A response \in get_journal_response_outcomes, is_followup \in BOOLEAN :
          LET after == get_ai_response_and_set_state(session, response, is_followup).session
          IN  IF falsy(response)
              THEN /\ after.app_state = session.app_state
                   /\ after.ai_initial_response = session.ai_initial_response
                   /\ after.ai_followup_response = session.ai_followup_response
                   /\ after.error_message # <<>>
              ELSE /\ IF is_followup
                      THEN /\ after.ai_followup_response = response.text
                           /\ after.ai_initial_response = session.ai_initial_response
                           /\ after.app_state = "followup_submitted"
                      ELSE /\ after.ai_initial_response = response.text
                           /\ after.ai_followup_response = session.ai_followup_response
                           /\ after.app_state = "entry_submitted"
                   /\ after.error_message = <<>>
    /\ (last_op.asked_ai /\ ~last_op.got_response) =>
          /\ session.app_state = prev_session.app_state
          /\ session.ai_initial_response = prev_session.ai_initial_response
          /\ session.ai_followup_response = prev_session.ai_followup_response
          /\ session.error_message # <<>>
    /\ (last_op.asked_ai /\ last_op.got_response) =>
          /\ session.app_state =
                (IF last_op.op = "followup" THEN "followup_submitted" ELSE "entry_submitted")
          /\ session.error_message = <<>>

\* a quiet follow-up for which the generator returned nothing
C15_Witness ==
    /\ Submitted("followup", "quiet")
    /\ last_op.asked_ai
    /\ ~last_op.got_response
    /\ session.error_message = SNAG_MESSAGE
    /\ session.app_state = "entry_submitted"

C17_BlankSubmissionChangesNothing ==
    last_op.blank =>
        /\ last_op.op \in {"initial", "followup"}
        /\ ~last_op.classified
        /\ ~last_op.asked_ai
        /\ session.app_state = prev_session.app_state
        /\ session.ai_initial_response = prev_session.ai_initial_response
        /\ session.ai_followup_response = prev_session.ai_followup_response
        /\ session.current_reflection_concluded = prev_session.current_reflection_concluded

\* a white-space-only follow-up after an answered quiet follow-up
C17_Witness ==
    /\ last_op.blank
    /\ last_op.op = "followup"
    /\ session.followup_entry_text = ENTRY_BLANK
    /\ session.app_state = "followup_submitted"
    /\ session.ai_followup_response = AI_RESPONSE

(***************************************************************************)
(* C18.  In every reachable session state app_state is one of initial,     *)
(* entry_submitted, followup_submitted; set_app_state called with any      *)
(* other value leaves app_state unchanged.                                 *)
(***************************************************************************)
C18_AppStateIsValid ==
    /\ session.app_state \in {"initial", "entry_submitted", "followup_submitted"}
    /\ \A state \in OtherStateNames :
          set_app_state(session, state).app_state = session.app_state

\* set_app_state has moved the app to followup_submitted
C18_Witness ==
    /\ session.app_state = "followup_submitted"
    /\ prev_session.app_state = "entry_submitted"
    /\ last_op.rerun

(***************************************************************************)
(* Vocabulary of the properties of the user prompt.                        *)
(***************************************************************************)
\* the content of the user message of the request that call posted
UserContent == http_requests[1].messages[2].content

\* the places of the user message where a reflection starts, and the i-th
ReflectionStarts == {p \in DOMAIN UserContent : UserContent[p] = "Reflection #"}
ReflectionStart(i) ==
    CHOOSE p \in ReflectionStarts :
        Cardinality({q \in ReflectionStarts : q < p}) = i - 1

\* the i-th reflection of the user message: from its start to the next one
ReflectionText(i) ==
    SubSeq(UserContent, ReflectionStart(i),
           IF i < Cardinality(ReflectionStarts)
           THEN ReflectionStart(i + 1) - 1
           ELSE Len(UserContent))

\* t holds the pieces of part, in a row, from place p on
HoldsAt(t, p, part) ==
    /\ p + Len(part) - 1 <= Len(t)
    /\ SubSeq(t, p, p + Len(part) - 1) = part

\* the key of that call is empty, or a template is missing
Unconfigured == Called /\ ~RemoteConfigured

\* the call posted its request and got no reply
RequestFailed == Called /\ http_requests # <<>> /\ raw_response.is_none

(***************************************************************************)
(* C19.  The user prompt sent to the remote model holds one reflection per *)
(* element of prompts, in ascending index order; the one at index i is     *)
(* numbered i+1 and holds prompts[i], without surrounding white space,     *)
(* followed by conversation[i]; the entry of the last reflection is the    *)
(* one that was checked against the safety phrases, so it matches none.    *)
(***************************************************************************)
C19_OneReflectionPerTurn ==
    http_requests # <<>> =>
        /\ Cardinality(ReflectionStarts) = Len(call.prompts)
        /\ \A i \in 1..Len(call.prompts) :
              LET text == ReflectionText(i)
                  prompt == strip(call.prompts[i], WHITESPACE)
              IN  /\ text[2] = ToString(i)
                  /\ HoldsAt(text, 5, prompt)
                  /\ HoldsAt(text, 5 + Len(prompt) + 2, call.conversation[i])
                  /\ \A j \in 1..Len(call.prompts) :
                        i < j => ReflectionStart(i) < ReflectionStart(j)
        /\ LastEntry \notin SafetyMatching

\* two turns sent to the remote model, the earlier entry a safety phrase
C19_Witness ==
    /\ http_requests # <<>>
    /\ Len(call.prompts) = 2
    /\ call.conversation[1] = ENTRY_KILL
    /\ LastEntry = ENTRY_PROMOTION
    /\ Cardinality(ReflectionStarts) = 2

(***************************************************************************)
(* C20.  Each call posts at most one request to the remote model, and none *)
(* when the API key is empty or a prompt template is missing; in both of   *)
(* those cases, and when the request fails, the result category is         *)
(* "unclear".                                                              *)
(***************************************************************************)
C20_AtMostOneRequest ==
    /\ Len(http_requests) <= 1
    /\ CountEvents("http_post") <= 1
    /\ Unconfigured => http_requests = <<>>
    /\ (Unconfigured \/ RequestFailed) => ReturnedCategory("unclear")

(***************************************************************************)
(* Vocabulary of the properties of the CSV log: a reader of the file.      *)
(***************************************************************************)
\* csv.reader over text from place p on, up to the end of one record: field
\* and row are the ones being read, quoted whether p is inside a quoted
\* field; the record and the place after it
RECURSIVE csv_read_record(_, _, _, _, _)
csv_read_record(text, p, field, row, quoted) ==
    IF p > Len(text)
    THEN [row |-> Append(row, field), next |-> p]
    ELSE LET c == text[p]
             next == IF p < Len(text) THEN text[p + 1] ELSE ""
         IN  IF quoted
             THEN IF c = "\"" /\ next = "\""
                  THEN csv_read_record(text, p + 2, Append(field, "\""), row, TRUE)
                  ELSE IF c = "\""
                  THEN csv_read_record(text, p + 1, field, row, FALSE)
                  ELSE csv_read_record(text, p + 1, Append(field, c), row, TRUE)
             ELSE IF c = "\"" /\ field = <<>>
                  THEN csv_read_record(text, p + 1, field, row, TRUE)
                  ELSE IF c = ","
                  THEN csv_read_record(text, p + 1, <<>>, Append(row, field), FALSE)
                  ELSE IF c = "\r" /\ next = "\n"
                  THEN [row |-> Append(row, field), next |-> p + 2]
                  ELSE IF c \in {"\r", "\n"}
                  THEN [row |-> Append(row, field), next |-> p + 1]
                  ELSE csv_read_record(text, p + 1, Append(field, c), row, FALSE)

\* csv.reader over text from place p on: the records
RECURSIVE csv_read(_, _)
csv_read(text, p) ==
    IF p > Len(text) THEN <<>>
    ELSE LET record == csv_read_record(text, p, <<>>, <<>>, FALSE)
         IN  <<record.row>> \o csv_read(text, record.next)

\* the text a reader that opens the file with utf-8-sig decodes
decoded(text) == IF text # <<>> /\ Head(text) = BOM THEN Tail(text) ELSE text

\* Python values: to a reader every cell is a str
PyStr(t) == [type |-> "str", text |-> t]
PyBool(b) == [type |-> "bool", text |-> str_bool(b)]
PyNone == [type |-> "NoneType", text |-> <<>>]

\* csv.DictReader over the log file: the last row, by field name
LastRowRead ==
    LET rows == csv_read(decoded(file_text(log_file)), 1)
        names == rows[1]
        last == rows[Len(rows)]
        place(name) == CHOOSE i \in DOMAIN names : names[i] = <<name>>
    IN  [ name \in {names[i][1] : i \in DOMAIN names} |->
            IF place(name) <= Len(last) THEN PyStr(last[place(name)]) ELSE PyNone ]

\* the values passed to the last completed log_to_csv call
ValuesPassed ==
    [ prompt |-> PyStr(logged.prompt),
      entry |-> PyStr(logged.entry),
      category |-> PyStr(text_of(logged.category)),
      response_text |-> PyStr(text_of(logged.response_text)),
      safety_flagged |-> PyBool(logged.safety_flagged) ]

(***************************************************************************)
(* C11.  Round trip of a log record: after a log_to_csv call, reading the  *)
(* last row back by field name yields the same prompt, entry, category,    *)
(* response_text and safety_flagged values that were passed in.            *)
(***************************************************************************)
C11_RoundTrip ==
    csv_calls # <<>> =>
        \A name \in DOMAIN ValuesPassed :
            /\ name \in DOMAIN LastRowRead
            /\ LastRowRead[name] = ValuesPassed[name]

(***************************************************************************)
(* C11, amended.  After a log_to_csv call, reading the last row back by    *)
(* field name yields the prompt, entry, category and response_text strings *)
(* that were passed in, and for safety_flagged the string "True" or        *)
(* "False" that str() gives for the boolean passed in.                     *)
(***************************************************************************)
C11_RoundTripAsText ==
    csv_calls # <<>> =>
        /\ DOMAIN LastRowRead = Range(fieldnames)
        /\ \A name \in DOMAIN ValuesPassed :
              /\ LastRowRead[name].type = "str"
              /\ LastRowRead[name].text = ValuesPassed[name].text

\* the third row of the file holds an entry with a comma, quotes and a line break
C11_Witness ==
    /\ Len(log_file) = 4
    /\ logged.entry = ENTRY_QUOTED
    /\ logged.safety_flagged
    /\ LastRowRead["entry"] = PyStr(ENTRY_QUOTED)
    /\ LastRowRead["safety_flagged"] = PyStr(<<"True">>)

(***************************************************************************)
(* Vocabulary of the properties of the answers to a submission.            *)
(***************************************************************************)
\* the last interaction was the submission of a text that is not blank
SubmittedText == last_op.op \in {"initial", "followup"} /\ ~last_op.blank

\* that submission was answered: the handler changed app_state, stored a
\* response, set error_message or showed a message
Answered ==
    \/ session.app_state # prev_session.app_state
    \/ last_op.got_response
    \/ (last_op.op = "followup" /\ session.ai_followup_response = CONCLUDED_MESSAGE)
    \/ session.error_message # <<>>
    \/ last_op.shown # <<>>

(***************************************************************************)
(* C21.  Every submission of a text that is not blank is answered, for     *)
(* each of the five categories the classifier can return: the handler      *)
(* changes app_state, stores a response, or sets or shows a user-facing    *)
(* message; no category leaves the session silently unchanged.             *)
(***************************************************************************)
C21_EverySubmissionAnswered ==
    SubmittedText =>
        /\ last_op.outcome \in {"safety", "instruction", "quiet", "positive", "unclear"}
        /\ Answered

====
